---- MODULE Spec2Model ----
(***************************************************************************)
(* Model of dejavu/database_handler/sqlite3_database.py (Sqlite3Database): *)
(* the songs and fingerprints tables behind one shared sqlite3 connection, *)
(* the cursor() transaction scope, batched ingestion (insert_hashes) and   *)
(* the batched lookup / offset-difference algorithm (return_matches).      *)
(*                                                                         *)
(* A database value is a record                                            *)
(*   [schema, songs, fingerprints, seq]                                    *)
(* schema       : the tables and indexes that exist                        *)
(* songs        : set of rows of table songs                               *)
(* fingerprints : bag of rows <<song_id, hash, offset>> of table           *)
(*                fingerprints.  The surrogate id column is selected by no *)
(*                statement of the program, so rows are kept up to         *)
(*                multiplicity: two rows with the same triple are a bag    *)
(*                element with two copies.                                 *)
(* seq          : sqlite_sequence entry of table songs (AUTOINCREMENT)     *)
(*                                                                         *)
(* A hash is a sequence of one-character strings, so that str.lower() is   *)
(* computed character by character.                                        *)
(***************************************************************************)
EXTENDS Integers, Sequences, FiniteSets, Bags, TLC

VARIABLES conn, last

vars == <<conn, last>>

(* ---------------------------- bounds ----------------------------------- *)
MaxSongs == 2
MaxLen == 2
MaxBatch == 2
MaxOffset == 1
MaxInsertOffset == 0
MaxCalls == 2

(* ---------------------------- inputs ----------------------------------- *)
HashInputs == {<<"a", "b">>, <<"A", "b">>, <<"c", "d">>}
Offsets == 0..MaxOffset
SampledOffsets == 0..(MaxOffset + 1)
SongIds == 1..MaxSongs
BatchSizes == 1..MaxBatch
Names == {"track-A"}
NoPath == "None"
Paths == {NoPath, "a.mp3"}
FileHashes == {"f0"}
TotalHashes == {0}

SeqsUpTo(S, n) == UNION {[1..k -> S] : k \in 0..n}
\* (hash, offset) sequences handed to the store machine
InsertPairs == SeqsUpTo(HashInputs \X (0..MaxInsertOffset), MaxLen)
\* (hash, sampled_offset) sequences handed to the lookup
QueryPairs == SeqsUpTo(HashInputs \X SampledOffsets, MaxLen)

(* ---------------------------- helpers ---------------------------------- *)
Min(a, b) == IF a < b THEN a ELSE b

\* str.lower() on one character of a hexadecimal hash
LowerChar(c) ==
  CASE c = "A" -> "a"
    [] c = "B" -> "b"
    [] c = "C" -> "c"
    [] c = "D" -> "d"
    [] c = "E" -> "e"
    [] c = "F" -> "f"
    [] OTHER -> c

\* the hash as it is given
KeepCase(h) == h

\* str.lower()
Lower(h) == [i \in DOMAIN h |-> LowerChar(h[i])]

\* int(offset) for the integer offsets the callers pass
int(offset) == offset

\* a loop header that leaves out a last round shorter than step
RECURSIVE RangeWholeSteps(_, _, _)
RangeWholeSteps(start, stop, step) ==
  IF start + step > stop THEN <<>>
  ELSE <<start>> \o RangeWholeSteps(start + step, stop, step)

\* range(start, stop, step) as the sequence of its values, step >= 1
RECURSIVE range(_, _, _)
range(start, stop, step) ==
  IF start >= stop THEN <<>>
  ELSE <<start>> \o range(start + step, stop, step)

\* the slice s[index : index + n] of a 0-indexed Python list
Slice(s, index, n) == SubSeq(s, index + 1, Min(index + n, Len(s)))

(* ------------------------------ errors --------------------------------- *)
\* An exception is a pair.  NoFault: nothing raised.  <<k, j>> with k >= 1: a
\* storage failure (sqlite3.OperationalError) raised by statement k of a
\* scope's body after j of its parameter tuples were applied.
NoFault == <<0, 0>>
IntegrityError == <<-1, 0>>
KeyError == <<-2, 0>>

(* ------------------------- SQL statements ------------------------------ *)
\* a statement's outcome: the database it leaves and the exception it raises
Done(db) == [db |-> db, error |-> NoFault]
Raise(db, e) == [db |-> db, error |-> e]

\* the schema objects of setup()
SchemaObjects == {"songs", "fingerprints", "idx_hash_offset", "idx_file_path"}

\* CREATE TABLE IF NOT EXISTS songs: an existing table is left as it is
CREATE_SONGS_TABLE(db, p) == Done([db EXCEPT !.schema = @ \cup {"songs"}])

\* DROP TABLE IF EXISTS fingerprints and then CREATE TABLE fingerprints: the
\* table comes back without its rows and without its index
DropAndCreateFingerprints(db, p) ==
  Done([db EXCEPT !.schema = (@ \ {"idx_hash_offset"}) \cup {"fingerprints"},
                  !.fingerprints = EmptyBag])

\* CREATE TABLE IF NOT EXISTS fingerprints
CREATE_FINGERPRINTS_TABLE(db, p) ==
  Done([db EXCEPT !.schema = @ \cup {"fingerprints"}])

\* CREATE UNIQUE INDEX IF NOT EXISTS idx_hash_offset ON fingerprints
\* (hash, song_id, offset): building the index fails on rows stored twice
CREATE_UNIQUE_CONSTRAINT(db, p) ==
  IF "idx_hash_offset" \in db.schema THEN Done(db)
  ELSE IF \E r \in BagToSet(db.fingerprints) : CopiesIn(r, db.fingerprints) > 1
       THEN Raise(db, IntegrityError)
       ELSE Done([db EXCEPT !.schema = @ \cup {"idx_hash_offset"}])

\* CREATE INDEX IF NOT EXISTS idx_file_path ON songs (file_path)
CREATE_PATH_INDEX(db, p) ==
  Done([db EXCEPT !.schema = @ \cup {"idx_file_path"}])

\* the statements sqlite3 runs without opening a transaction
DDL ==
  {"CREATE_SONGS_TABLE", "CREATE_FINGERPRINTS_TABLE",
   "CREATE_UNIQUE_CONSTRAINT", "CREATE_PATH_INDEX"}

\* the row of table songs written by the INSERT of insert_song; AUTOINCREMENT
\* gives it the id after the largest id the table ever held
SongRow(id, song_name, file_hash, total_hashes, file_path) ==
  [id |-> id, name |-> song_name,
   file_path |-> IF file_path = NoPath THEN song_name ELSE file_path,
   file_hash |-> file_hash, total_hashes |-> total_hashes,
   fingerprinted |-> 0]

\* the INSERT into a table whose id is not AUTOINCREMENT: the id after the
\* largest id the table holds now
InsertSongAfterLargest(db, p) ==
  LET largest == IF db.songs = {} THEN 0
                 ELSE CHOOSE n \in {s.id : s \in db.songs} :
                        \A s \in db.songs : s.id <= n
  IN Done([db EXCEPT
             !.songs = @ \cup {SongRow(largest + 1, p[1], p[2], p[3], p[4])},
             !.seq = @ + 1])

INSERT_SONG(db, p) ==
  Done([db EXCEPT
          !.songs = @ \cup {SongRow(db.seq + 1, p[1], p[2], p[3], p[4])},
          !.seq = @ + 1])

\* the table without its unique index: no row ever conflicts
NoUniqueIndex(db, p) == FALSE

\* a unique index on (hash, song_id) alone: a row conflicts with any stored
\* row of its song and hash, whatever the offset
IndexOnHashAndSong(db, p) ==
  /\ "idx_hash_offset" \in db.schema
  /\ \E r \in BagToSet(db.fingerprints) : r[1] = p[1] /\ r[2] = p[2]

\* the unique index idx_hash_offset on fingerprints (hash, song_id, offset):
\* does the row p = <<song_id, hash, offset>> conflict with a stored row
idx_hash_offset(db, p) ==
  "idx_hash_offset" \in db.schema /\ BagIn(p, db.fingerprints)

\* a plain INSERT: a conflicting row raises
ConflictAbort == "ABORT"

\* the conflict clause of INSERT_FINGERPRINT
ConflictClause == "IGNORE"

\* INSERT OR IGNORE INTO fingerprints: a row that conflicts with the unique
\* index is skipped, any other row is added
INSERT_FINGERPRINT(db, p) ==
  IF idx_hash_offset(db, p)
  THEN IF ConflictClause = "IGNORE" THEN Done(db)
       ELSE Raise(db, IntegrityError)
  ELSE Done([db EXCEPT !.fingerprints = @ (+) SetToBag({p})])

\* UPDATE songs SET fingerprinted = 1 WHERE id = ?
UPDATE_SONG_FINGERPRINTED(db, p) ==
  Done([db EXCEPT !.songs =
     {IF s.id = p[1] THEN [s EXCEPT !.fingerprinted = 1] ELSE s : s \in @}])

\* DELETE FROM songs WHERE fingerprinted = 0 (no foreign key action is
\* declared and the connection never enables foreign keys: table
\* fingerprints is not touched)
DELETE_UNFINGERPRINTED(db, p) ==
  Done([db EXCEPT !.songs = {s \in @ : s.fingerprinted # 0}])

\* DELETE FROM songs WHERE id IN (...)
DELETE_SONGS(db, p) ==
  Done([db EXCEPT !.songs = {s \in @ : s.id \notin {p[i] : i \in DOMAIN p}}])

\* the SELECT without its WHERE clause
SelectEverySong(db) == db.songs

\* SELECT id, name, file_path, file_hash, fingerprinted FROM songs
\*   WHERE fingerprinted = 1
SELECT_SONGS(db) == {s \in db.songs : s.fingerprinted = 1}

\* the rows of a bag as a sequence, each row as often as the bag holds it
\* (SQL fixes no order for a SELECT without ORDER BY; the model fixes one)
RECURSIVE BagToSeq(_)
BagToSeq(b) ==
  IF DOMAIN b = {} THEN <<>>
  ELSE LET r == CHOOSE x \in DOMAIN b : TRUE
       IN <<r>> \o BagToSeq(b (-) SetToBag({r}))

\* SELECT_ALL in the place of SELECT_MULTIPLE: every stored row
SelectAllRows(db, values) ==
  LET rows == BagToSeq(db.fingerprints)
  IN [i \in DOMAIN rows |-> <<rows[i][2], rows[i][1], rows[i][3]>>]

\* SELECT hash, song_id, offset FROM fingerprints WHERE hash IN (...):
\* every stored row whose hash is one of the values, as <<hash, song_id, offset>>
SELECT_MULTIPLE(db, values) ==
  LET hit == {r \in BagToSet(db.fingerprints) :
                \E i \in DOMAIN values : r[2] = values[i]}
      rows == BagToSeq([r \in hit |-> CopiesIn(r, db.fingerprints)])
  IN [i \in DOMAIN rows |-> <<rows[i][2], rows[i][1], rows[i][3]>>]

\* the statement sql with the parameter tuple p on database db
Statement(db, sql, p) ==
  CASE sql = "INSERT_SONG" -> INSERT_SONG(db, p)
    [] sql = "INSERT_FINGERPRINT" -> INSERT_FINGERPRINT(db, p)
    [] sql = "UPDATE_SONG_FINGERPRINTED" -> UPDATE_SONG_FINGERPRINTED(db, p)
    [] sql = "DELETE_UNFINGERPRINTED" -> DELETE_UNFINGERPRINTED(db, p)
    [] sql = "DELETE_SONGS" -> DELETE_SONGS(db, p)
    [] sql = "CREATE_SONGS_TABLE" -> CREATE_SONGS_TABLE(db, p)
    [] sql = "CREATE_FINGERPRINTS_TABLE" -> CREATE_FINGERPRINTS_TABLE(db, p)
    [] sql = "CREATE_UNIQUE_CONSTRAINT" -> CREATE_UNIQUE_CONSTRAINT(db, p)
    [] sql = "CREATE_PATH_INDEX" -> CREATE_PATH_INDEX(db, p)

\* cur.execute(sql, p) on connection c.  The connection is in sqlite3's
\* default transaction mode: a transaction is opened before an INSERT,
\* UPDATE or DELETE and stays open until commit or rollback; a CREATE
\* statement opens none, and outside a transaction it is durable at once.
Execute(c, sql, p) ==
  LET out == Statement(c.working, sql, p)
  IN [conn |-> IF sql \in DDL
               THEN [c EXCEPT
                       !.working = out.db,
                       !.committed = IF c.in_transaction THEN @ ELSE out.db]
               ELSE [c EXCEPT !.working = out.db, !.in_transaction = TRUE],
      error |-> out.error]

\* cur.executemany(sql, params) over the first n parameter tuples: it stops
\* at the first tuple whose execution raises
RECURSIVE ExecuteMany(_, _, _, _)
ExecuteMany(c, sql, params, n) ==
  IF n = 0 THEN [conn |-> c, error |-> NoFault]
  ELSE LET st == ExecuteMany(c, sql, params, n - 1)
       IN IF st.error # NoFault THEN st ELSE Execute(st.conn, sql, params[n])

(* --------------------- the transaction scope --------------------------- *)
\* A statement of a scope's body is [sql, params]: executemany over params
\* (execute is the case of one parameter tuple).
\* the storage failures a body can meet
Faults(stmts) ==
  {NoFault} \cup
  UNION {{<<k, j>> : j \in 0..(Len(stmts[k].params) - 1)} : k \in DOMAIN stmts}

\* the storage failures of the bodies of at most MaxLen statements of at most
\* MaxLen parameter tuples
AllFaults == {NoFault} \cup ((1..MaxLen) \X (0..(MaxLen - 1)))

\* the body run up to its statement n: it stops at the first exception, be it
\* raised by a statement or the storage failure fault = <<k, j>>
RECURSIVE RunBody(_, _, _, _)
RunBody(c, stmts, fault, n) ==
  IF n = 0 THEN [conn |-> c, error |-> NoFault]
  ELSE LET st == RunBody(c, stmts, fault, n - 1)
       IN IF st.error # NoFault THEN st
          ELSE IF n = fault[1]
               THEN LET part == ExecuteMany(st.conn, stmts[n].sql,
                                            stmts[n].params, fault[2])
                    IN IF part.error # NoFault THEN part
                       ELSE [conn |-> part.conn, error |-> fault]
               ELSE ExecuteMany(st.conn, stmts[n].sql, stmts[n].params,
                                Len(stmts[n].params))

\* self.conn.commit()
commit(c) == [c EXCEPT !.committed = c.working, !.in_transaction = FALSE]

\* self.conn.rollback()
rollback(c) == [c EXCEPT !.working = c.committed, !.in_transaction = FALSE]

\* cur.close()
close(c) == [c EXCEPT !.cursors = @ - 1]

\* with self.cursor() as cur: <stmts>, the body raising error once it is
\* through (NoFault: it raises nothing).  The result is the connection after
\* the scope and the exception that leaves it.
cursor(c, stmts, fault, error) ==
  LET exit(st) ==
        IF st.error = NoFault /\ error = NoFault
        THEN [conn |-> close(commit(st.conn)), raised |-> NoFault]
        ELSE [conn |-> close(rollback(st.conn)),
              raised |-> IF st.error # NoFault THEN st.error ELSE error]
  IN exit(RunBody([c EXCEPT !.cursors = @ + 1], stmts, fault, Len(stmts)))

\* the statements of setup()
SetupBody ==
  <<[sql |-> "CREATE_SONGS_TABLE", params |-> <<<<>>>>],
    [sql |-> "CREATE_FINGERPRINTS_TABLE", params |-> <<<<>>>>],
    [sql |-> "CREATE_UNIQUE_CONSTRAINT", params |-> <<<<>>>>],
    [sql |-> "CREATE_PATH_INDEX", params |-> <<<<>>>>]>>

\* setup: one scope around the four CREATE statements
setup(c, fault) == cursor(c, SetupBody, fault, NoFault)

(* ---------------------------- handlers --------------------------------- *)
\* insert_song: one scope around one INSERT; returns cur.lastrowid
insert_song(c, song_name, file_hash, total_hashes, file_path, fault) ==
  LET r == cursor(c, <<[sql |-> "INSERT_SONG",
                        params |-> <<<<song_name, file_hash, total_hashes,
                                       file_path>>>>]>>, fault, NoFault)
  IN [conn |-> r.conn, raised |-> r.raised,
      rowid |-> IF r.raised = NoFault THEN r.conn.working.seq ELSE 0]

\* values = [(song_id, hsh.lower(), int(offset)) for hsh, offset in hashes]
InsertValues(song_id, hashes) ==
  [i \in DOMAIN hashes |-> <<song_id, Lower(hashes[i][1]), int(hashes[i][2])>>]

\* the executemany statements of the loop
\*   for index in range(0, len(hashes), batch_size):
\*       cur.executemany(INSERT_FINGERPRINT, values[index: index + batch_size])
InsertBatches(song_id, hashes, batch_size) ==
  LET values == InsertValues(song_id, hashes)
      index == range(0, Len(hashes), batch_size)
  IN [k \in DOMAIN index |->
        [sql |-> "INSERT_FINGERPRINT",
         params |-> Slice(values, index[k], batch_size)]]

\* the batches run one scope each, in turn, up to batch n
RECURSIVE ScopePerBatch(_, _, _, _)
ScopePerBatch(c, stmts, fault, n) ==
  IF n = 0 THEN [conn |-> c, raised |-> NoFault]
  ELSE LET r == ScopePerBatch(c, stmts, fault, n - 1)
           one == cursor(r.conn, <<stmts[n]>>,
                         IF fault[1] = n THEN <<1, fault[2]>> ELSE NoFault,
                         NoFault)
       IN IF r.raised # NoFault THEN r
          ELSE [conn |-> one.conn,
                raised |-> IF one.raised = NoFault THEN NoFault ELSE fault]

\* insert_hashes with the scope opened inside the loop
InsertHashesScopePerBatch(c, song_id, hashes, batch_size, fault) ==
  ScopePerBatch(c, InsertBatches(song_id, hashes, batch_size), fault,
                Len(InsertBatches(song_id, hashes, batch_size)))

\* insert_hashes with the UPDATE of set_song_fingerprinted at the end of its
\* scope
InsertHashesAndFlag(c, song_id, hashes, batch_size, fault) ==
  cursor(c, InsertBatches(song_id, hashes, batch_size)
              \o <<[sql |-> "UPDATE_SONG_FINGERPRINTED",
                    params |-> <<<<song_id>>>>]>>, fault, NoFault)

\* insert_hashes: the whole loop runs inside one scope
insert_hashes(c, song_id, hashes, batch_size, fault) ==
  cursor(c, InsertBatches(song_id, hashes, batch_size), fault, NoFault)

\* the songs of a set of rows in rowid order
RECURSIVE SortById(_)
SortById(S) ==
  IF S = {} THEN <<>>
  ELSE LET m == CHOOSE s \in S : \A t \in S : s.id <= t.id
       IN <<m>> \o SortById(S \ {m})

\* get_songs: the rows of SELECT_SONGS as dicts over the selected columns
get_songs(c) ==
  LET r == cursor(c, <<>>, NoFault, NoFault)
      rows == SortById(SELECT_SONGS(c.working))
  IN [conn |-> r.conn, raised |-> r.raised,
      results |-> [i \in DOMAIN rows |->
                     [id |-> rows[i].id, name |-> rows[i].name,
                      file_path |-> rows[i].file_path,
                      file_hash |-> rows[i].file_hash,
                      fingerprinted |-> rows[i].fingerprinted]]]

\* the SELECT of get_song_by_id without its WHERE clause
SelectSongOfAnyId(db, song_id) == db.songs

\* SELECT id, name, file_path, file_hash, total_hashes FROM songs WHERE id = ?
SELECT_SONG_BY_ID(db, song_id) == {s \in db.songs : s.id = song_id}

\* what get_song_by_id returns for no row (None), as a sequence of no dict
NoSong == <<>>

\* get_song_by_id: the first row of the SELECT as a dict over the selected
\* columns (a sequence of one dict), or None
get_song_by_id(c, song_id) ==
  LET r == cursor(c, <<>>, NoFault, NoFault)
      rows == SortById(SELECT_SONG_BY_ID(c.working, song_id))
  IN [conn |-> r.conn, raised |-> r.raised,
      song |-> IF rows = <<>> THEN NoSong
               ELSE <<[id |-> rows[1].id, name |-> rows[1].name,
                       file_path |-> rows[1].file_path,
                       file_hash |-> rows[1].file_hash,
                       total_hashes |-> rows[1].total_hashes]>>]

\* the mapper built with mapper[hsh] = [offset] for every pair: a key keeps
\* the offset it was sampled at last
RECURSIVE BuildMapperLastOffset(_, _)
BuildMapperLastOffset(hashes, n) ==
  IF n = 0 THEN [keys |-> <<>>, offsets |-> <<>>]
  ELSE LET m == BuildMapperLastOffset(hashes, n - 1)
           hsh == Lower(hashes[n][1])
           offset == hashes[n][2]
       IN IF \E i \in DOMAIN m.keys : m.keys[i] = hsh
          THEN [m EXCEPT !.offsets =
                  [i \in DOMAIN @ |->
                     IF m.keys[i] = hsh THEN <<offset>> ELSE @[i]]]
          ELSE [keys |-> Append(m.keys, hsh),
                offsets |-> Append(m.offsets, <<offset>>)]

\* mapper after the first n pairs: keys in insertion order, and for each key
\* the list of the offsets it was sampled at
RECURSIVE BuildMapper(_, _)
BuildMapper(hashes, n) ==
  IF n = 0 THEN [keys |-> <<>>, offsets |-> <<>>]
  ELSE LET m == BuildMapper(hashes, n - 1)
           hsh == Lower(hashes[n][1])
           offset == hashes[n][2]
       IN IF \E i \in DOMAIN m.keys : m.keys[i] = hsh
          THEN [m EXCEPT !.offsets =
                  [i \in DOMAIN @ |->
                     IF m.keys[i] = hsh THEN Append(@[i], offset) ELSE @[i]]]
          ELSE [keys |-> Append(m.keys, hsh),
                offsets |-> Append(m.offsets, <<offset>>)]

\* the row body with the count raised once per sampled offset
MatchRowCountPerOffset(acc, m, row) ==
  LET hsh == Lower(row[1])
      sid == row[2]
      offset == row[3]
      sampled == IF \A i \in DOMAIN m.keys : m.keys[i] # hsh THEN <<>>
                 ELSE m.offsets[CHOOSE i \in DOMAIN m.keys : m.keys[i] = hsh]
      d == IF sid \in DOMAIN acc.dedup_hashes
           THEN [acc.dedup_hashes EXCEPT ![sid] = @ + Len(sampled)]
           ELSE acc.dedup_hashes @@ (sid :> Len(sampled))
  IN [acc EXCEPT !.dedup_hashes = d,
                 !.results = @ \o [i \in DOMAIN sampled |->
                                     <<sid, offset - sampled[i]>>]]

\* the row body with the difference taken the other way round
MatchRowSampledMinusStored(acc, m, row) ==
  LET hsh == Lower(row[1])
      sid == row[2]
      offset == row[3]
      sampled == IF \A i \in DOMAIN m.keys : m.keys[i] # hsh THEN <<>>
                 ELSE m.offsets[CHOOSE i \in DOMAIN m.keys : m.keys[i] = hsh]
      d == IF sid \in DOMAIN acc.dedup_hashes
           THEN [acc.dedup_hashes EXCEPT ![sid] = @ + 1]
           ELSE acc.dedup_hashes @@ (sid :> 1)
  IN [acc EXCEPT !.dedup_hashes = d,
                 !.results = @ \o [i \in DOMAIN sampled |->
                                     <<sid, sampled[i] - offset>>]]

\* the body of "for hsh, sid, offset in cur" for one row; mapper[hsh] raises
\* KeyError for a hash that is no key, and the loop ends there
MatchRow(acc, m, row) ==
  LET hsh == Lower(row[1])
      sid == row[2]
      offset == row[3]
      d == IF sid \in DOMAIN acc.dedup_hashes
           THEN [acc.dedup_hashes EXCEPT ![sid] = @ + 1]
           ELSE acc.dedup_hashes @@ (sid :> 1)
  IN IF acc.error # NoFault THEN acc
     ELSE IF \A i \in DOMAIN m.keys : m.keys[i] # hsh
          THEN [acc EXCEPT !.dedup_hashes = d, !.error = KeyError]
          ELSE LET sampled ==
                     m.offsets[CHOOSE i \in DOMAIN m.keys : m.keys[i] = hsh]
               IN [acc EXCEPT
                     !.dedup_hashes = d,
                     !.results = @ \o [i \in DOMAIN sampled |->
                                         <<sid, offset - sampled[i]>>]]

RECURSIVE MatchRows(_, _, _, _)
MatchRows(acc, m, rows, n) ==
  IF n = 0 THEN acc
  ELSE MatchRow(MatchRows(acc, m, rows, n - 1), m, rows[n])

\* the loop with its accumulators created inside the round: only the rows
\* of the last round are returned
MatchBatchesKeepLast(db, m, values, index, batch_size, n) ==
  IF n = 0 THEN [dedup_hashes |-> <<>>, results |-> <<>>, error |-> NoFault]
  ELSE LET rows == SELECT_MULTIPLE(db, Slice(values, index[n], batch_size))
       IN MatchRows([dedup_hashes |-> <<>>, results |-> <<>>,
                     error |-> NoFault], m, rows, Len(rows))

\* the loop "for index in range(0, len(values), batch_size)" after its
\* first n rounds
RECURSIVE MatchBatches(_, _, _, _, _, _)
MatchBatches(db, m, values, index, batch_size, n) ==
  IF n = 0 THEN [dedup_hashes |-> <<>>, results |-> <<>>, error |-> NoFault]
  ELSE LET acc == MatchBatches(db, m, values, index, batch_size, n - 1)
           rows == SELECT_MULTIPLE(db, Slice(values, index[n], batch_size))
       IN IF acc.error # NoFault THEN acc
          ELSE MatchRows(acc, m, rows, Len(rows))

\* return_matches with a scope that also stores the pairs of the query
ReturnMatchesStoringQuery(c, hashes, batch_size) ==
  LET mapper == BuildMapper(hashes, Len(hashes))
      index == range(0, Len(mapper.keys), batch_size)
      out == MatchBatches(c.working, mapper, mapper.keys, index, batch_size,
                          Len(index))
      result(r) ==
        [conn |-> r.conn, raised |-> r.raised,
         results |-> IF r.raised = NoFault THEN out.results ELSE <<>>,
         dedup_hashes |->
           IF r.raised = NoFault THEN out.dedup_hashes ELSE <<>>]
  IN result(cursor(c, InsertBatches(0, hashes, batch_size), NoFault,
                   out.error))

\* return_matches: (results, dedup_hashes), or the exception of its scope
return_matches(c, hashes, batch_size) ==
  LET mapper == BuildMapper(hashes, Len(hashes))
      values == mapper.keys
      index == range(0, Len(values), batch_size)
      out == MatchBatches(c.working, mapper, values, index, batch_size,
                          Len(index))
      r == cursor(c, <<>>, NoFault, out.error)
  IN [conn |-> r.conn, raised |-> r.raised,
      results |-> IF r.raised = NoFault THEN out.results ELSE <<>>,
      dedup_hashes |-> IF r.raised = NoFault THEN out.dedup_hashes ELSE <<>>]

\* the callers of UPDATE_SONG_FINGERPRINTED, DELETE_UNFINGERPRINTED and
\* DELETE_SONGS: one scope around the statement
set_song_fingerprinted(c, song_id, fault) ==
  cursor(c, <<[sql |-> "UPDATE_SONG_FINGERPRINTED",
               params |-> <<<<song_id>>>>]>>, fault, NoFault)

delete_unfingerprinted_songs(c, fault) ==
  cursor(c, <<[sql |-> "DELETE_UNFINGERPRINTED", params |-> <<<<>>>>]>>,
         fault, NoFault)

delete_songs_by_id(c, song_ids, fault) ==
  cursor(c, <<[sql |-> "DELETE_SONGS", params |-> <<song_ids>>]>>,
         fault, NoFault)

(* -------------------------- state machine ------------------------------ *)
\* the database of a new file: no table, no index
NewDb == [schema |-> {}, songs |-> {}, fingerprints |-> EmptyBag, seq |-> 0]

\* the database after setup() on a new file: both tables empty
EmptyDb == [NewDb EXCEPT !.schema = SchemaObjects]

\* a connection outside every scope that shows database db
Connection(db) ==
  [committed |-> db, working |-> db, in_transaction |-> FALSE, cursors |-> 0]

\* the record of the latest call: its arguments, what it returned or raised,
\* the database the connection showed before it, and the number of calls
\* made since the caller last took a result
NoCall ==
  [op |-> "none", calls |-> 0, song_id |-> 0, hashes |-> <<>>, batch_size |-> 0,
   song_ids |-> <<>>, file_path |-> NoPath, name |-> "",
   fault |-> NoFault, raised |-> NoFault, rowid |-> 0,
   results |-> <<>>, dedup_hashes |-> <<>>, songs |-> <<>>,
   song |-> NoSong, batch |-> 0, pre |-> NewDb]

\* __init__ up to sqlite3.connect on a new file; setup() is the call that
\* ends the construction
Init ==
  /\ conn = Connection(NewDb)
  /\ last = NoCall

\* the construction went through: the handlers can be called
Constructed == conn.working.schema = SchemaObjects

\* no call is under way: the connection is used by one caller, so the calls
\* come one after the other
Idle == last.op = "none"

\* setup(), from __init__ or called again later; a construction that failed
\* is run again on the same file
Setup ==
  \E fault \in Faults(SetupBody) :
    LET r == setup(conn, fault)
    IN /\ Idle
       /\ conn' = r.conn
       /\ last' = [NoCall EXCEPT !.op = "setup", !.fault = fault,
                                 !.raised = r.raised, !.pre = conn.working,
          !.calls = last.calls + 1]

InsertSong ==
  \E song_name \in Names, file_hash \in FileHashes,
     total_hashes \in TotalHashes, file_path \in Paths,
     fault \in {NoFault, <<1, 0>>} :
    LET r == insert_song(conn, song_name, file_hash, total_hashes, file_path,
                         fault)
    IN /\ Idle
       /\ Constructed
       /\ conn.working.seq < MaxSongs
       /\ conn' = r.conn
       /\ last' = [NoCall EXCEPT !.op = "insert_song", !.name = song_name,
                                 !.file_path = file_path, !.fault = fault,
                                 !.raised = r.raised, !.rowid = r.rowid,
                                 !.pre = conn.working,
          !.calls = last.calls + 1]

\* insert_hashes for a song of the set ids, with a storage failure of the
\* set F
InsertHashesOf(ids, F) ==
  \E song_id \in ids, hashes \in InsertPairs, batch_size \in BatchSizes :
    \E fault \in Faults(InsertBatches(song_id, hashes, batch_size)) \cap F :
      LET r == insert_hashes(conn, song_id, hashes, batch_size, fault)
      IN /\ Constructed
         /\ conn' = r.conn
         /\ last' = [NoCall EXCEPT !.op = "insert_hashes",
                                   !.song_id = song_id, !.hashes = hashes,
                                   !.batch_size = batch_size,
                                   !.fault = fault, !.raised = r.raised,
                                   !.pre = conn.working,
          !.calls = last.calls + 1]

InsertHashes == Idle /\ InsertHashesOf(SongIds, AllFaults)

SetSongFingerprinted ==
  \E song_id \in SongIds, fault \in {NoFault, <<1, 0>>} :
    LET r == set_song_fingerprinted(conn, song_id, fault)
    IN /\ Idle
       /\ Constructed
       /\ conn' = r.conn
       /\ last' = [NoCall EXCEPT !.op = "set_song_fingerprinted",
                                 !.song_id = song_id, !.fault = fault,
                                 !.raised = r.raised, !.pre = conn.working,
          !.calls = last.calls + 1]

DeleteUnfingerprintedSongs ==
  \E fault \in {NoFault, <<1, 0>>} :
    LET r == delete_unfingerprinted_songs(conn, fault)
    IN /\ Idle
       /\ Constructed
       /\ conn' = r.conn
       /\ last' = [NoCall EXCEPT !.op = "delete_unfingerprinted_songs",
                                 !.fault = fault, !.raised = r.raised,
                                 !.pre = conn.working,
          !.calls = last.calls + 1]

DeleteSongs ==
  \E song_ids \in SeqsUpTo(SongIds, MaxSongs), fault \in {NoFault, <<1, 0>>} :
    LET r == delete_songs_by_id(conn, song_ids, fault)
    IN /\ Idle
       /\ Constructed
       /\ song_ids # <<>>
       /\ conn' = r.conn
       /\ last' = [NoCall EXCEPT !.op = "delete_songs_by_id",
                                 !.song_ids = song_ids, !.fault = fault,
                                 !.raised = r.raised, !.pre = conn.working,
          !.calls = last.calls + 1]

GetSongs ==
  LET r == get_songs(conn)
  IN /\ Idle
     /\ Constructed
     /\ conn' = r.conn
     /\ last' = [NoCall EXCEPT !.op = "get_songs", !.raised = r.raised,
                               !.songs = r.results, !.pre = conn.working,
          !.calls = last.calls + 1]

\* get_song_by_id for an id insert_song can give out, or the one after
GetSongById ==
  \E song_id \in 1..(MaxSongs + 1) :
    LET r == get_song_by_id(conn, song_id)
    IN /\ Idle
       /\ Constructed
       /\ conn' = r.conn
       /\ last' = [NoCall EXCEPT !.op = "get_song_by_id",
                                 !.song_id = song_id, !.raised = r.raised,
                                 !.song = r.song, !.pre = conn.working,
                                 !.calls = last.calls + 1]

\* return_matches on a query of the set Q
ReturnMatchesOf(Q) ==
  \E hashes \in Q, batch_size \in BatchSizes :
    LET r == return_matches(conn, hashes, batch_size)
    IN /\ Constructed
       /\ conn' = r.conn
       /\ last' = [NoCall EXCEPT !.op = "return_matches", !.hashes = hashes,
                                 !.batch_size = batch_size,
                                 !.raised = r.raised, !.results = r.results,
                                 !.dedup_hashes = r.dedup_hashes,
                                 !.pre = conn.working,
          !.calls = last.calls + 1]

ReturnMatches == Idle /\ ReturnMatchesOf(InsertPairs)

\* the caller takes what the call returned or raised; the next call finds
\* the database and nothing else of this one
Return ==
  /\ last.op # "none"
  /\ last' = NoCall
  /\ UNCHANGED conn

Next ==
  \/ Setup
  \/ InsertSong
  \/ InsertHashes
  \/ SetSongFingerprinted
  \/ DeleteUnfingerprintedSongs
  \/ DeleteSongs
  \/ GetSongs
  \/ GetSongById
  \/ ReturnMatches
  \/ Return

Spec == Init /\ [][Next]_vars

(* ---- return_matches as a function of the stored rows and the query ---- *)
\* the rows a store can hold: lower-case hashes, one row per triple
StoredRows ==
  SongIds \X {Lower(h) : h \in HashInputs} \X Offsets

\* a store some run of insert_song and insert_hashes leaves: MaxSongs songs
\* and any set of rows
InitMatch ==
  /\ \E F \in SUBSET StoredRows :
       conn = Connection(
         [schema |-> SchemaObjects,
          songs |-> {SongRow(id, "track-A", "f0", 0, NoPath) : id \in SongIds},
          fingerprints |-> SetToBag(F), seq |-> MaxSongs])
  /\ last = NoCall

\* one lookup per behaviour: return_matches leaves the store as it is, so a
\* second lookup reaches no state the first does not
MatchQuery == Idle /\ ReturnMatchesOf(QueryPairs)

NextMatch == MatchQuery

SpecMatch == InitMatch /\ [][NextMatch]_vars

(* ------- insert_hashes called again for the song it was called for ------ *)
\* insert_hashes, and then insert_hashes for the same song before anything
\* else is called, both without storage failure
Replay ==
  /\ last.calls < MaxCalls
  /\ last.raised = NoFault
  /\ InsertHashesOf(IF Idle THEN SongIds ELSE {last.song_id},
                    {NoFault})

NextReplay == Replay

SpecReplay == InitMatch /\ [][NextReplay]_vars

(* ------------------------ vocabulary of the claims --------------------- *)
(* ------------ insert_hashes called again after it has failed ------------ *)
\* insert_hashes meets a storage failure
FailedIngestion ==
  /\ Idle
  /\ last.calls = 0
  /\ InsertHashesOf(SongIds, AllFaults \ {NoFault})

\* the caller calls insert_hashes again with the same song and the same
\* pairs, and no storage failure happens
Retry ==
  /\ last.op = "insert_hashes"
  /\ last.raised # NoFault
  /\ last.calls < MaxCalls
  /\ \E batch_size \in BatchSizes :
       LET r == insert_hashes(conn, last.song_id, last.hashes, batch_size,
                              NoFault)
       IN /\ conn' = r.conn
          /\ last' = [last EXCEPT !.batch_size = batch_size,
                                  !.fault = NoFault, !.raised = r.raised,
                                  !.calls = @ + 1]

NextRetry == FailedIngestion \/ Retry

SpecRetry == InitMatch /\ [][NextRetry]_vars

(* ----- two threads on the shared connection (check_same_thread=False) ---- *)
\* One thread runs insert_hashes statement by statement; between two of its
\* statements another thread runs return_matches or insert_song on the same
\* connection.  last.batch is the batch the first thread runs next, 0 when
\* its scope is not open.
OpenBatches == InsertBatches(last.song_id, last.hashes, last.batch_size)

\* insert_hashes up to `with self.cursor() as cur:` (cur = self.conn.cursor())
ThreadOpensScope ==
  /\ Idle
  /\ Constructed
  /\ \E song_id \in SongIds, hashes \in InsertPairs, batch_size \in BatchSizes :
       /\ conn' = [conn EXCEPT !.cursors = @ + 1]
       /\ last' = [NoCall EXCEPT !.op = "insert_hashes",
                                 !.song_id = song_id, !.hashes = hashes,
                                 !.batch_size = batch_size,
                                 !.pre = conn.working, !.batch = 1,
                                 !.calls = 1]

\* one cur.executemany of the loop; a storage failure at one of its rows
\* takes the thread through the except and finally clauses of cursor()
ThreadRunsBatch ==
  /\ last.batch \in DOMAIN OpenBatches
  /\ \/ /\ conn' = ExecuteMany(conn, OpenBatches[last.batch].sql,
                               OpenBatches[last.batch].params,
                               Len(OpenBatches[last.batch].params)).conn
        /\ last' = [last EXCEPT !.batch = @ + 1]
     \/ \E j \in 0..(Len(OpenBatches[last.batch].params) - 1) :
          /\ conn' = close(rollback(
                        ExecuteMany(conn, OpenBatches[last.batch].sql,
                                    OpenBatches[last.batch].params, j).conn))
          /\ last' = [last EXCEPT !.batch = 0, !.fault = <<last.batch, j>>,
                                  !.raised = <<last.batch, j>>]

\* the loop is through: self.conn.commit() and cur.close()
ThreadLeavesScope ==
  /\ last.batch = Len(OpenBatches) + 1
  /\ conn' = close(commit(conn))
  /\ last' = [last EXCEPT !.batch = 0]

\* the queries of the other thread: no pair, or one
ThreadQueries == {q \in InsertPairs : Len(q) <= 1}

\* another thread calls return_matches while the scope is open
OtherThreadLooksUp ==
  /\ last.batch > 0
  /\ \E hashes \in ThreadQueries :
       conn' = return_matches(conn, hashes, MaxBatch).conn
  /\ UNCHANGED last

\* another thread calls insert_song while the scope is open
OtherThreadInsertsSong ==
  /\ last.batch > 0
  /\ conn.working.seq <= MaxSongs
  /\ \E song_name \in Names, file_hash \in FileHashes,
        total_hashes \in TotalHashes, file_path \in Paths,
        fault \in {NoFault, <<1, 0>>} :
       conn' = insert_song(conn, song_name, file_hash, total_hashes,
                           file_path, fault).conn
  /\ UNCHANGED last

NextThreads ==
  \/ ThreadOpensScope
  \/ ThreadRunsBatch
  \/ ThreadLeavesScope
  \/ OtherThreadLooksUp
  \/ OtherThreadInsertsSong

SpecThreads == InitMatch /\ [][NextThreads]_vars

\* the stored Fingerprint rows of a database, as a set of triples
Stored(db) == BagToSet(db.fingerprints)

\* the (hash, offset) pairs stored for one song
SongPairs(db, song_id) ==
  {<<r[2], r[3]>> : r \in {x \in Stored(db) : x[1] = song_id}}

\* the (hash, offset) pairs of an input sequence, canonicalized
CanonPairs(hashes) ==
  {<<Lower(hashes[i][1]), int(hashes[i][2])>> : i \in DOMAIN hashes}

\* the rows insert_hashes is asked to store
CanonRows(song_id, hashes) ==
  {<<song_id, q[1], q[2]>> : q \in CanonPairs(hashes)}

\* how often t occurs in the sequence s
Occurrences(s, t) == Cardinality({i \in DOMAIN s : s[i] = t})

\* two sequences hold the same elements the same number of times
SameMultiset(s, t) ==
  \A x \in {s[i] : i \in DOMAIN s} \cup {t[i] : i \in DOMAIN t} :
    Occurrences(s, x) = Occurrences(t, x)

\* C1: Uniqueness invariant. In every reachable state of the store machine
\* no (hash, song_id, offset) triple is held by two Fingerprint rows, in the
\* database the connection shows and in the committed one.
C1_Uniqueness ==
  /\ \A r \in Stored(conn.working) : CopiesIn(r, conn.working.fingerprints) = 1
  /\ \A r \in Stored(conn.committed) :
       CopiesIn(r, conn.committed.fingerprints) = 1

\* an insert_hashes call returned after it met rows that were already stored
C1_Witness ==
  /\ last.op = "insert_hashes"
  /\ last.raised = NoFault
  /\ CanonRows(last.song_id, last.hashes) \cap Stored(last.pre) # {}
  /\ \E i, j \in DOMAIN last.hashes :
       i # j /\ Lower(last.hashes[i][1]) = Lower(last.hashes[j][1])

\* C2: Idempotent ingestion. When insert_hashes(song_id, P) has returned and
\* the next call is insert_hashes(song_id, P') with P' identical to or
\* overlapping P and no storage failure, the second call raises nothing,
\* leaves no triple stored twice, leaves for the song the pairs it had before
\* the first call together with the canonicalized pairs of P and P', and
\* leaves the Fingerprint rows unchanged when P' = P.
C2_IdempotentIngestion ==
  [][(/\ last.op = "insert_hashes"
      /\ last.raised = NoFault
      /\ last'.op = "insert_hashes"
      /\ last'.song_id = last.song_id
      /\ last'.fault = NoFault
      /\ \/ last'.hashes = last.hashes
         \/ CanonPairs(last'.hashes) \cap CanonPairs(last.hashes) # {})
     => (/\ last'.raised = NoFault
         /\ \A r \in Stored(conn'.working) :
              CopiesIn(r, conn'.working.fingerprints) = 1
         /\ SongPairs(conn'.working, last.song_id)
              = SongPairs(last.pre, last.song_id)
                  \cup CanonPairs(last.hashes) \cup CanonPairs(last'.hashes)
         /\ last'.hashes = last.hashes
              => conn'.working.fingerprints = conn.working.fingerprints)]_vars

\* a second insert_hashes call for the song returned that repeated pairs the
\* song already had and brought new ones
C2_Witness ==
  /\ last.op = "insert_hashes"
  /\ last.calls = 2
  /\ last.raised = NoFault
  /\ CanonPairs(last.hashes) \cap SongPairs(last.pre, last.song_id) # {}
  /\ ~(CanonPairs(last.hashes) \subseteq SongPairs(last.pre, last.song_id))
  /\ SongPairs(conn.working, last.song_id)
       = SongPairs(last.pre, last.song_id) \cup CanonPairs(last.hashes)

\* the batches of the latest insert_hashes call
LastBatches == InsertBatches(last.song_id, last.hashes, last.batch_size)

\* the rows of the batches before batch k, and of batch k
RowsBefore(k) ==
  UNION {{LastBatches[b].params[i] : i \in DOMAIN LastBatches[b].params} :
           b \in 1..(k - 1)}
RowsOf(k) ==
  {LastBatches[k].params[i] : i \in DOMAIN LastBatches[k].params}

LastBody ==
  CASE last.op = "insert_song" ->
         <<[sql |-> "INSERT_SONG",
            params |-> <<<<last.name, "f0", 0, last.file_path>>>>]>>
    [] last.op = "insert_hashes" -> LastBatches
    [] last.op = "set_song_fingerprinted" ->
         <<[sql |-> "UPDATE_SONG_FINGERPRINTED",
            params |-> <<<<last.song_id>>>>]>>
    [] last.op = "delete_unfingerprinted_songs" ->
         <<[sql |-> "DELETE_UNFINGERPRINTED", params |-> <<<<>>>>]>>
    [] last.op = "delete_songs_by_id" ->
         <<[sql |-> "DELETE_SONGS", params |-> <<last.song_ids>>]>>
    [] last.op = "setup" -> SetupBody
    [] OTHER -> <<>>

\* C4: Transaction scope. After a call, which runs its statements in one
\* scope: when the body completed, the committed database is the one the
\* whole body produces; when a statement failed, no write of the body is in
\* the database, committed or shown by the connection, and the caller gets
\* the failure that was raised; either way no cursor and no transaction is
\* left open.  The scope of setup() breaks it: sqlite3 opens no transaction
\* for a CREATE statement, so the tables and indexes created before a failed
\* statement stay in the database after conn.rollback().
C4_TransactionScope ==
  last.op # "none" =>
    /\ conn.cursors = 0
    /\ ~conn.in_transaction
    /\ conn.working = conn.committed
    /\ last.raised = last.fault
    /\ last.raised = NoFault
         => conn.committed
              = RunBody(Connection(last.pre), LastBody, NoFault,
                        Len(LastBody)).conn.working
    /\ last.raised # NoFault => conn.committed = last.pre

\* C7: Batch-size invariance of insert_hashes. After a call without storage
\* failure every canonicalized input pair is stored for the song, and the
\* same call with any other batch_size >= 1 leaves the same Fingerprint rows.
C7_InsertBatchInvariance ==
  (last.op = "insert_hashes" /\ last.raised = NoFault)
    => /\ CanonRows(last.song_id, last.hashes) \subseteq Stored(conn.working)
       /\ \A b \in 1..(MaxLen + 1) :
            insert_hashes(Connection(last.pre), last.song_id, last.hashes, b,
                          NoFault).conn.working.fingerprints
              = conn.working.fingerprints

\* a call whose last batch was shorter than batch_size stored new rows
C7_Witness ==
  /\ last.op = "insert_hashes"
  /\ last.raised = NoFault
  /\ Len(last.hashes) % last.batch_size # 0
  /\ RowsOf(Len(LastBatches)) \ Stored(last.pre) # {}
  /\ RowsOf(Len(LastBatches)) \subseteq Stored(conn.working)

\* the ids of the songs get_songs lists on connection c
Listed(c) ==
  {get_songs(c).results[i].id : i \in DOMAIN get_songs(c).results}

\* C10: Completion gating. get_songs returns exactly the songs whose
\* fingerprinted flag is set, as their stored records. A song is unlisted
\* when insert_song returns it, insert_hashes changes no listing, and the
\* only call after which a song is newly listed is the flip of its flag,
\* which lists it.
C10_CompletionGating ==
  /\ Listed(conn) = {s.id : s \in {t \in conn.working.songs :
                                     t.fingerprinted = 1}}
  /\ last.op = "get_songs" =>
       /\ {last.songs[i].id : i \in DOMAIN last.songs} = Listed(conn)
       /\ \A i \in DOMAIN last.songs :
            \E s \in conn.working.songs :
              /\ s.id = last.songs[i].id
              /\ s.fingerprinted = 1 /\ last.songs[i].fingerprinted = 1
              /\ s.name = last.songs[i].name
              /\ s.file_path = last.songs[i].file_path
              /\ s.file_hash = last.songs[i].file_hash
       /\ \A i, j \in DOMAIN last.songs :
            i # j => last.songs[i].id # last.songs[j].id
  /\ (last.op = "insert_song" /\ last.raised = NoFault) =>
       /\ last.rowid \notin Listed(conn)
       /\ \E s \in conn.working.songs : s.id = last.rowid
  /\ last.op = "insert_hashes" => Listed(conn) = Listed(Connection(last.pre))
  /\ last.op # "none" =>
       \A id \in Listed(conn) \ Listed(Connection(last.pre)) :
         last.op = "set_song_fingerprinted" /\ last.song_id = id
  /\ (/\ last.op = "set_song_fingerprinted"
      /\ last.raised = NoFault
      /\ \E s \in last.pre.songs : s.id = last.song_id)
       => last.song_id \in Listed(conn)

\* get_songs listed a flipped song and left out a song that has rows stored
\* and an unset flag
C10_Witness ==
  /\ last.op = "get_songs"
  /\ Len(last.songs) = 1
  /\ \E s \in conn.working.songs :
       /\ s.fingerprinted = 0
       /\ SongPairs(conn.working, s.id) # {}
       /\ \A i \in DOMAIN last.songs : last.songs[i].id # s.id

\* the lower-cased hashes of the latest query
QueryHashes == {Lower(last.hashes[i][1]) : i \in DOMAIN last.hashes}

\* the stored rows of song s whose hash is a hash of the latest query
MatchedRows(s) ==
  {r \in Stored(conn.working) : r[1] = s /\ r[2] \in QueryHashes}

\* the songs owning stored rows
Owners == {r[1] : r \in Stored(conn.working)}

\* the pairs of a stored row and a query occurrence of its hash that give the
\* candidate tuple t
Evidence(t) ==
  {e \in Stored(conn.working) \X DOMAIN last.hashes :
     /\ e[1][2] = Lower(last.hashes[e[2]][1])
     /\ t = <<e[1][1], e[1][3] - last.hashes[e[2]][2]>>}

\* every tuple some stored row and some query occurrence can give
EvidenceTuples ==
  {<<e[1][1], e[1][3] - last.hashes[e[2]][2]>> :
     e \in {x \in Stored(conn.working) \X DOMAIN last.hashes :
              x[1][2] = Lower(last.hashes[x[2]][1])}}

\* C5: return_matches counts for every song its stored rows whose hash is a
\* query hash, once per row, with no entry for a song without such a row, and
\* returns as candidates one tuple (song_id, stored_offset - sampled_offset)
\* for every pair of a stored row and a query occurrence of the same hash.
C5_MatchEvidence ==
  last.op = "return_matches" =>
    /\ last.raised = NoFault
    /\ DOMAIN last.dedup_hashes = {s \in Owners : MatchedRows(s) # {}}
    /\ \A s \in DOMAIN last.dedup_hashes :
         last.dedup_hashes[s] = Cardinality(MatchedRows(s))
    /\ \A t \in EvidenceTuples \cup
                {last.results[i] : i \in DOMAIN last.results} :
         Occurrences(last.results, t) = Cardinality(Evidence(t))

\* a lookup whose query repeats a hash that a song stores at two offsets:
\* two rows are counted for one distinct hash
C5_Witness ==
  /\ last.op = "return_matches"
  /\ Len(last.hashes) = 2
  /\ Cardinality(QueryHashes) = 1
  /\ \E s \in DOMAIN last.dedup_hashes :
       /\ last.dedup_hashes[s] = 2
       /\ Cardinality({r[2] : r \in MatchedRows(s)}) = 1
       /\ Cardinality({i \in DOMAIN last.results : last.results[i][1] = s}) = 4

\* C6: Batch-size invariance of return_matches. The same query on the same
\* store with any batch_size >= 1 returns the same counts and the same
\* multiset of candidate tuples.
C6_MatchBatchInvariance ==
  last.op = "return_matches" =>
    \A b \in 1..(MaxLen + 1) :
      LET r == return_matches(conn, last.hashes, b)
      IN /\ r.raised = last.raised
         /\ DOMAIN r.dedup_hashes = DOMAIN last.dedup_hashes
         /\ \A s \in DOMAIN r.dedup_hashes :
              r.dedup_hashes[s] = last.dedup_hashes[s]
         /\ SameMultiset(r.results, last.results)

\* a lookup of two query hashes in two rounds, each round finding rows
C6_Witness ==
  /\ last.op = "return_matches"
  /\ last.batch_size = 1
  /\ Cardinality(QueryHashes) = 2
  /\ \A h \in QueryHashes : \E r \in Stored(conn.working) : r[2] = h
  /\ Len(last.results) >= 2

\* the rows of song s
RowsOfSong(s) == {r \in Stored(conn.working) : r[1] = s}

\* song s stores pairwise-distinct hashes, and the latest query is these
\* hashes, once each, at the stored offsets shifted by k
Aligned(s, k) ==
  /\ RowsOfSong(s) # {}
  /\ \A r1, r2 \in RowsOfSong(s) : r1 # r2 => r1[2] # r2[2]
  /\ Len(last.hashes) = Cardinality(RowsOfSong(s))
  /\ {<<Lower(last.hashes[i][1]), last.hashes[i][2]>> : i \in DOMAIN last.hashes}
       = {<<r[2], r[3] + k>> : r \in RowsOfSong(s)}

\* C8: Alignment concentration. When song s stores n pairwise-distinct
\* hashes and the query is the same hashes at the stored offsets plus one
\* constant k, the candidates of s are n tuples (s, -k) and no other tuple,
\* and the count of s is n.
C8_AlignmentConcentration ==
  last.op = "return_matches" =>
    \A s \in SongIds, k \in (0 - MaxOffset - 1)..(MaxOffset + 1) :
      Aligned(s, k) =>
        /\ last.raised = NoFault
        /\ Occurrences(last.results, <<s, 0 - k>>)
             = Cardinality(RowsOfSong(s))
        /\ \A i \in DOMAIN last.results :
             last.results[i][1] = s => last.results[i][2] = 0 - k
        /\ s \in DOMAIN last.dedup_hashes
        /\ last.dedup_hashes[s] = Cardinality(RowsOfSong(s))

\* a song of two hashes at two offsets, looked up one time unit later
C8_Witness ==
  /\ last.op = "return_matches"
  /\ \E s \in SongIds :
       /\ Aligned(s, 1)
       /\ Cardinality(RowsOfSong(s)) = 2
       /\ Cardinality({r[3] : r \in RowsOfSong(s)}) = 2
       /\ Occurrences(last.results, <<s, 0 - 1>>) = 2

\* C9: No-match and empty cases. A lookup whose query is empty, or holds
\* only hashes that no stored row has, returns no candidate and no count and
\* raises nothing.
C9_NoMatch ==
  (/\ last.op = "return_matches"
   /\ \A h \in QueryHashes : \A r \in Stored(conn.working) : r[2] # h)
    => /\ last.raised = NoFault
       /\ last.results = <<>>
       /\ DOMAIN last.dedup_hashes = {}

\* a lookup of two absent hashes in a store that holds rows
C9_Witness ==
  /\ last.op = "return_matches"
  /\ Len(last.hashes) = 2
  /\ Stored(conn.working) # {}
  /\ \A h \in QueryHashes : \A r \in Stored(conn.working) : r[2] # h
  /\ last.results = <<>>

(* ---------------------- Song and Fingerprint lifetimes ------------------ *)
\* the ids of the songs of database db
SongIdsOf(db) == {s.id : s \in db.songs}

\* C11: A Fingerprint never outlives its Song. Every Fingerprint row whose
\* song_id is an id insert_song has given out is the row of an existing Song:
\* once a Song is deleted, by id or by the purge of the unfingerprinted
\* songs, none of its rows is left.
C11_NoFingerprintOutlivesItsSong ==
  \A r \in Stored(conn.working) :
    r[1] <= conn.working.seq => r[1] \in SongIdsOf(conn.working)

\* C12: return_matches is read-only. After a lookup the Song rows and the
\* Fingerprint rows, committed and shown by the connection, are those from
\* before the call, and the same lookup made again returns the same result
\* and leaves the connection as it is.
C12_ReturnMatchesReadOnly ==
  last.op = "return_matches" =>
    /\ conn.working.songs = last.pre.songs
    /\ conn.working.fingerprints = last.pre.fingerprints
    /\ conn.committed = conn.working
    /\ return_matches(conn, last.hashes, last.batch_size).conn = conn
    /\ return_matches(conn, last.hashes, last.batch_size).results
         = last.results
    /\ return_matches(conn, last.hashes, last.batch_size).dedup_hashes
         = last.dedup_hashes

\* a lookup found rows of both songs
C12_Witness ==
  /\ last.op = "return_matches"
  /\ last.raised = NoFault
  /\ DOMAIN last.dedup_hashes = SongIds
  /\ conn.working.fingerprints = last.pre.fingerprints

(* --------------------------- Retry after failure ------------------------- *)
\* C13: Retry after failure converges. When insert_hashes(song_id, P) has
\* failed with a storage fault and insert_hashes(song_id, P) is called again
\* without fault, the second call raises nothing and leaves, committed, the
\* Fingerprint rows a single fault-free call on the store from before the
\* failed call leaves: the rows from before together with the canonicalized
\* rows of P, each of them once.
C13_RetryConverges ==
  [][(/\ last.op = "insert_hashes"
      /\ last.raised # NoFault
      /\ last'.op = "insert_hashes"
      /\ last'.song_id = last.song_id
      /\ last'.hashes = last.hashes
      /\ last'.fault = NoFault)
     => (/\ last'.raised = NoFault
         /\ conn'.committed = conn'.working
         /\ Stored(conn'.working)
              = Stored(last.pre) \cup CanonRows(last.song_id, last.hashes)
         /\ \A r \in Stored(conn'.working) :
              CopiesIn(r, conn'.working.fingerprints) = 1
         /\ conn'.working.fingerprints
              = insert_hashes(Connection(last.pre), last.song_id, last.hashes,
                              last'.batch_size, NoFault).conn.working
                  .fingerprints)]_vars

\* the call after a failed call returned, with two pairs of which the song
\* had one row before and one is new
C13_Witness ==
  /\ last.op = "insert_hashes"
  /\ last.calls = 2
  /\ last.raised = NoFault
  /\ Len(last.hashes) = 2
  /\ CanonRows(last.song_id, last.hashes) \cap Stored(last.pre) # {}
  /\ ~(CanonRows(last.song_id, last.hashes) \subseteq Stored(last.pre))
  /\ Stored(conn.working)
       = Stored(last.pre) \cup CanonRows(last.song_id, last.hashes)

(* -------------------------------- insert_song ---------------------------- *)
\* the file_path insert_song stores for the latest call
StoredPath == IF last.file_path = NoPath THEN last.name ELSE last.file_path

\* C14: Every insert_song call that returns adds exactly one new Song, with
\* fingerprinted = 0 and file_path the given path or, when none is given,
\* the name; the Songs from before are all kept as they were, also one of
\* the same name or path; and the call returns the id of the new Song, which
\* is greater than every id given out before (the ids 1..seq of the store
\* before the call), also when songs were deleted.
C14_InsertSongAddsOne ==
  /\ \A s \in conn.working.songs : s.id \in 1..conn.working.seq
  /\ (last.op = "insert_song" /\ last.raised = NoFault) =>
       /\ last.pre.songs \subseteq conn.working.songs
       /\ Cardinality(conn.working.songs \ last.pre.songs) = 1
       /\ Cardinality(conn.working.songs) = Cardinality(last.pre.songs) + 1
       /\ \A s \in conn.working.songs \ last.pre.songs :
            /\ s.id = last.rowid
            /\ s.name = last.name
            /\ s.fingerprinted = 0
            /\ s.file_path = StoredPath
            /\ \A n \in 1..last.pre.seq : s.id > n
            /\ \A t \in last.pre.songs : s.id > t.id
       /\ conn.committed = conn.working

\* insert_song returned after the only song, of the same name and path,
\* had been deleted
C14_Witness ==
  /\ last.op = "insert_song"
  /\ last.raised = NoFault
  /\ last.pre.seq = 1
  /\ last.pre.songs = {}
  /\ last.rowid = 2

(* ------------------------------ get_song_by_id --------------------------- *)
\* C15: get_song_by_id returns the record of the Song whose id is the
\* argument when the store holds one, and None when it holds none (the id
\* was never given out, or its Song was deleted); it raises nothing and
\* leaves the store as it was.
C15_GetSongById ==
  last.op = "get_song_by_id" =>
    /\ last.raised = NoFault
    /\ conn.working = last.pre
    /\ conn.committed = last.pre
    /\ (last.song = NoSong)
         <=> (\A s \in last.pre.songs : s.id # last.song_id)
    /\ \A s \in last.pre.songs :
         s.id = last.song_id =>
           /\ Len(last.song) = 1
           /\ last.song[1].id = s.id
           /\ last.song[1].name = s.name
           /\ last.song[1].file_path = s.file_path
           /\ last.song[1].file_hash = s.file_hash
           /\ last.song[1].total_hashes = s.total_hashes

\* get_song_by_id returned None for the id of a deleted Song while another
\* Song is stored
C15_Witness ==
  /\ last.op = "get_song_by_id"
  /\ last.song = NoSong
  /\ last.song_id <= last.pre.seq
  /\ last.pre.songs # {}

(* ----------------------------------- setup ------------------------------- *)
\* C16: setup is idempotent and data-preserving. Called in any state of the
\* store, it leaves every Song row and every Fingerprint row as it was,
\* whether it returns or raises; when it returns, the schema is complete,
\* the unique index on (hash, song_id, offset) is in force (every stored
\* row conflicts with itself), and setup called once more changes nothing.
C16_SetupPreservesData ==
  last.op = "setup" =>
    /\ conn.working.songs = last.pre.songs
    /\ conn.working.fingerprints = last.pre.fingerprints
    /\ conn.working.seq = last.pre.seq
    /\ conn.committed.songs = last.pre.songs
    /\ conn.committed.fingerprints = last.pre.fingerprints
    /\ last.raised = NoFault =>
         /\ conn.committed.schema = SchemaObjects
         /\ \A r \in Stored(conn.working) :
              /\ idx_hash_offset(conn.working, r)
              /\ INSERT_FINGERPRINT(conn.working, r).db = conn.working
         /\ setup(conn, NoFault).conn = conn
         /\ setup(conn, NoFault).raised = NoFault

\* setup returned on a store that held a fingerprinted Song and rows
C16_Witness ==
  /\ last.op = "setup"
  /\ last.raised = NoFault
  /\ \E s \in last.pre.songs : s.fingerprinted = 1
  /\ Stored(last.pre) # {}
  /\ Stored(conn.working) = Stored(last.pre)

(* ------------------- scopes of two threads, interleaved ------------------ *)
\* C17: Scopes stay all-or-nothing under interleaving on the shared
\* connection. While the scope of insert_hashes is open and another thread
\* runs return_matches or insert_song, no row of the open scope is committed
\* and none of the rows it has written is discarded; when insert_hashes has
\* raised, the committed Fingerprint rows are those from before the call,
\* and when it has returned they are those together with all of its rows.
C17_ScopesAllOrNothing ==
  last.op = "insert_hashes" =>
    /\ last.batch > 0 =>
         /\ Stored(conn.committed) = Stored(last.pre)
         /\ Stored(conn.working) = Stored(last.pre) \cup RowsBefore(last.batch)
    /\ (last.batch = 0 /\ last.raised # NoFault) =>
         Stored(conn.committed) = Stored(last.pre)
    /\ (last.batch = 0 /\ last.raised = NoFault) =>
         Stored(conn.committed)
           = Stored(last.pre) \cup CanonRows(last.song_id, last.hashes)

(* -------------------------------- hash case ------------------------------ *)
\* the hexadecimal letters, lower case and upper case
Letters ==
  {<<"a", "A">>, <<"b", "B">>, <<"c", "C">>, <<"d", "D">>, <<"e", "E">>,
   <<"f", "F">>}

\* a hash without an upper-case letter
IsLowerCase(h) == \A i \in DOMAIN h : \A l \in Letters : h[i] # l[2]

\* two hashes that differ in letter case at most
SameLetters(g, h) ==
  /\ DOMAIN g = DOMAIN h
  /\ \A i \in DOMAIN g :
       g[i] = h[i] \/ <<g[i], h[i]>> \in Letters \/ <<h[i], g[i]>> \in Letters

\* the pair sequences that differ from hashes in the letter case of hashes
Recasings(hashes) ==
  {q \in InsertPairs :
     /\ Len(q) = Len(hashes)
     /\ \A i \in DOMAIN q :
          q[i][2] = hashes[i][2] /\ SameLetters(q[i][1], hashes[i][1])}

\* C18: Hash case is canonicalized on both sides. Every stored hash is
\* lower-case; insert_hashes called with the letter case of its hashes
\* changed leaves the same Fingerprint rows, so that every lookup returns
\* the same; return_matches called with the letter case of its hashes
\* changed returns the same result; and the pairs of an insert_hashes call
\* that differ only in hash case leave one row for the song and offset.
C18_HashCaseCanonical ==
  /\ \A r \in Stored(conn.working) : IsLowerCase(r[2])
  /\ (last.op = "insert_hashes" /\ last.raised = NoFault) =>
       /\ \A q \in Recasings(last.hashes) :
            insert_hashes(Connection(last.pre), last.song_id, q,
                          last.batch_size, NoFault).conn.working
              = conn.working
       /\ \A i \in DOMAIN last.hashes :
            /\ Cardinality({r \in Stored(conn.working) :
                              /\ r[1] = last.song_id
                              /\ r[3] = last.hashes[i][2]
                              /\ SameLetters(r[2], last.hashes[i][1])}) = 1
            /\ \A r \in Stored(conn.working) :
                 (r[1] = last.song_id /\ r[3] = last.hashes[i][2]
                    /\ SameLetters(r[2], last.hashes[i][1]))
                 => CopiesIn(r, conn.working.fingerprints) = 1
  /\ last.op = "return_matches" =>
       \A q \in Recasings(last.hashes) :
         /\ return_matches(Connection(last.pre), q, last.batch_size).results
              = last.results
         /\ return_matches(Connection(last.pre), q, last.batch_size)
              .dedup_hashes = last.dedup_hashes
         /\ return_matches(Connection(last.pre), q, last.batch_size).raised
              = last.raised

\* insert_hashes returned after it was given the same hash in two letter
\* cases, for a row that was not stored before
C18_Witness ==
  /\ last.op = "insert_hashes"
  /\ last.raised = NoFault
  /\ \E i, j \in DOMAIN last.hashes :
       /\ last.hashes[i][1] # last.hashes[j][1]
       /\ SameLetters(last.hashes[i][1], last.hashes[j][1])
       /\ last.hashes[i][2] = last.hashes[j][2]
  /\ Stored(conn.working) # Stored(last.pre)

(* ----------------------- the two outputs of a lookup --------------------- *)
\* the songs of the candidate tuples of the latest lookup
CandidateSongs == {last.results[i][1] : i \in DOMAIN last.results}

\* the number of candidate tuples of song s
TuplesOf(s) ==
  Cardinality({i \in DOMAIN last.results : last.results[i][1] = s})

\* the hashes of the query that song s has a stored row for
MatchedHashes(s) == {r[2] : r \in MatchedRows(s)}

\* the offsets hash h was sampled at in the query, and how often it occurs
SampledAt(h) ==
  {last.hashes[i][2] : i \in {j \in DOMAIN last.hashes :
                                Lower(last.hashes[j][1]) = h}}
TimesInQuery(h) ==
  Cardinality({i \in DOMAIN last.hashes : Lower(last.hashes[i][1]) = h})

\* C19 as stated: the keys of the counts are the songs of the candidates,
\* every count is at least 1, every song has at least as many candidate
\* tuples as its count, and as many exactly when none of its matched hashes
\* was sampled at several offsets in the query.
C19_EqualUnlessSeveralOffsets ==
  (last.op = "return_matches" /\ last.raised = NoFault) =>
    /\ DOMAIN last.dedup_hashes = CandidateSongs
    /\ \A s \in DOMAIN last.dedup_hashes :
         /\ last.dedup_hashes[s] >= 1
         /\ TuplesOf(s) >= last.dedup_hashes[s]
         /\ (TuplesOf(s) = last.dedup_hashes[s])
              <=> (\A h \in MatchedHashes(s) : Cardinality(SampledAt(h)) <= 1)

\* C19: In every result of return_matches the two outputs agree: the keys of
\* the counts are the songs of the candidates, every count is at least 1,
\* every song has at least as many candidate tuples as its count, and as
\* many exactly when none of its matched hashes occurs more than once in
\* the query, be it at several offsets or twice at the same offset.
C19_OutputsAgree ==
  (last.op = "return_matches" /\ last.raised = NoFault) =>
    /\ DOMAIN last.dedup_hashes = CandidateSongs
    /\ \A s \in DOMAIN last.dedup_hashes :
         /\ last.dedup_hashes[s] >= 1
         /\ TuplesOf(s) >= last.dedup_hashes[s]
         /\ (TuplesOf(s) = last.dedup_hashes[s])
              <=> (\A h \in MatchedHashes(s) : TimesInQuery(h) = 1)

\* a lookup whose query holds a matched hash twice at one offset returned
\* more candidate tuples of a song than the song's count
C19_Witness ==
  /\ last.op = "return_matches"
  /\ last.raised = NoFault
  /\ \E s \in DOMAIN last.dedup_hashes :
       /\ TuplesOf(s) > last.dedup_hashes[s]
       /\ \A h \in MatchedHashes(s) : Cardinality(SampledAt(h)) = 1

(* --------------------------- what insert_hashes leaves ------------------- *)
\* C20: insert_hashes(song_id, pairs) only appends Fingerprints of that
\* song. Whether it returns or raises, every Song record is as before, in
\* particular no fingerprinted flag is set; every Fingerprint row from
\* before is stored as often as before; and every new row has the song_id
\* of the argument and the hash and offset of a canonicalized input pair.
C20_InsertHashesOnlyAppends ==
  last.op = "insert_hashes" =>
    /\ conn.working.songs = last.pre.songs
    /\ conn.committed.songs = last.pre.songs
    /\ conn.working.seq = last.pre.seq
    /\ \A r \in Stored(last.pre) :
         /\ r \in Stored(conn.working)
         /\ CopiesIn(r, conn.working.fingerprints)
              = CopiesIn(r, last.pre.fingerprints)
    /\ \A r \in Stored(conn.working) \ Stored(last.pre) :
         /\ r[1] = last.song_id
         /\ <<r[2], r[3]>> \in CanonPairs(last.hashes)
    /\ conn.committed.fingerprints = conn.working.fingerprints

\* insert_hashes returned with new rows for a Song that is not flagged
\* fingerprinted, in a store that held rows of another song
C20_Witness ==
  /\ last.op = "insert_hashes"
  /\ last.raised = NoFault
  /\ \E s \in conn.working.songs :
       s.id = last.song_id /\ s.fingerprinted = 0
  /\ \E r \in Stored(last.pre) : r[1] # last.song_id
  /\ Stored(conn.working) \ Stored(last.pre) # {}

====
